---- MODULE Spec2Model ----
(***************************************************************************)
(* A model of dfcompy/core.py: the value comparators (NumberComparator,    *)
(* StringComparator) and the DataFrameComparator, whose constructor runs   *)
(* _check_subset, _prepare_data, _prepare_comparators and _compare and     *)
(* whose properties expose the row partitions.                             *)
(*                                                                         *)
(* Numbers are exact rationals num/den (den > 0) or NaN; on the values     *)
(* explored here the comparisons of the source, made in double precision,  *)
(* have the same outcome as in exact arithmetic.                           *)
(***************************************************************************)
EXTENDS Integers, Sequences, FiniteSets, TLC

VARIABLES
    one, other,          \* Comparator.one / Comparator.other (the two DataFrames)
    on,                  \* DataFrameComparator.on
    subset_arg,          \* the constructor's subset argument
    subset,              \* DataFrameComparator.subset
    number_mode, number_tolerance, ignore_case,
    _one, _other,        \* the indexed, column-restricted frames
    comparators,         \* one comparator class name per subset column
    _comparison, _mask,  \* the cell verdicts and the row mask
    pc, error,           \* position in __init__ and the exception leaving it
    nc                   \* a free-standing NumberComparator and its verdict

vars == <<one, other, on, subset_arg, subset, number_mode, number_tolerance,
          ignore_case, _one, _other, comparators, _comparison, _mask, pc,
          error, nc>>

----------------------------------------------------------------------------
(* Bounds *)

MaxKey == 2
MaxNum == 3

----------------------------------------------------------------------------
(* Python values held in DataFrame cells *)

Num(n) == [t |-> "num", n |-> n, s |-> ""]
Str(s) == [t |-> "str", n |-> 0, s |-> s]
NaN == [t |-> "nan", n |-> 0, s |-> ""]
None == [t |-> "none", n |-> 0, s |-> ""]
\* what .at yields for a label that occurs more than once in the index
SeriesVal == [t |-> "series", n |-> 0, s |-> ""]

----------------------------------------------------------------------------
(* Floating point values: a rational num/den, or NaN *)

Fin(n, d) == [k |-> "fin", num |-> n, den |-> d]
FNaN == [k |-> "nan", num |-> 0, den |-> 1]

IsNaN(f) == f.k = "nan"

Abs(i) == IF i < 0 THEN -i ELSE i

\* builtin abs on a float
FAbs(f) == IF IsNaN(f) THEN FNaN ELSE Fin(Abs(f.num), f.den)

\* float subtraction
FSub(a, b) ==
    IF IsNaN(a) \/ IsNaN(b) THEN FNaN
    ELSE Fin(a.num * b.den - b.num * a.den, a.den * b.den)

\* float comparisons; every comparison with NaN is False
FLt(a, b) == ~IsNaN(a) /\ ~IsNaN(b) /\ a.num * b.den < b.num * a.den
FGt(a, b) == FLt(b, a)
FEq(a, b) == ~IsNaN(a) /\ ~IsNaN(b) /\ a.num * b.den = b.num * a.den
FIsZero(f) == ~IsNaN(f) /\ f.num = 0

\* builtin max(a, b): keeps a unless b > a
PyMax(a, b) == IF FGt(b, a) THEN b ELSE a

\* float division by a non-zero divisor (the sign is carried by the numerator)
FDiv(a, b) ==
    IF IsNaN(a) \/ IsNaN(b) THEN FNaN
    ELSE IF b.num < 0 THEN Fin(-(a.num * b.den), a.den * (-b.num))
    ELSE Fin(a.num * b.den, a.den * b.num)

\* the strings float() parses into a number
FloatLiterals == {"0", "1"}
ParseLiteral(s) == IF s = "0" THEN 0 ELSE 1

Ok(v) == [err |-> "", val |-> v]
Raise(e) == [err |-> e, val |-> FALSE]

\* builtin float(v)
float(v) ==
    CASE v.t = "num" -> [err |-> "", f |-> Fin(v.n, 1)]
      [] v.t = "nan" -> [err |-> "", f |-> FNaN]
      [] v.t = "str" -> IF v.s \in FloatLiterals
                        THEN [err |-> "", f |-> Fin(ParseLiteral(v.s), 1)]
                        ELSE [err |-> "ValueError", f |-> FNaN]
      [] OTHER -> [err |-> "TypeError", f |-> FNaN]

----------------------------------------------------------------------------
(* NumberComparator *)

TOLERANCE_MODES == {"absolute", "relative"}

\* a tie at exactly the tolerance taken as equal
absolutely_compare_lenient(one_value, other_value, tolerance) ==
    Ok(~FGt(FAbs(FSub(one_value, other_value)), tolerance))

absolutely_compare(one_value, other_value, tolerance) ==
    Ok(FLt(FAbs(FSub(one_value, other_value)), tolerance))

relatively_compare(one_value, other_value, tolerance) ==
    IF FEq(other_value, one_value) /\ FIsZero(one_value) THEN Ok(TRUE)
    ELSE LET m == PyMax(FAbs(one_value), FAbs(other_value))
         IN  IF FIsZero(m) THEN Raise("ZeroDivisionError")
             ELSE Ok(FLt(FAbs(FDiv(FSub(one_value, other_value), m)), tolerance))

\* NumberComparator(one, other, tol_mode, tolerance).compare()
NumberCompare(o, p, tol_mode, tolerance) ==
    LET one_value == float(o)
        other_value == float(p)
    IN  IF one_value.err # "" THEN Raise(one_value.err)
        ELSE IF other_value.err # "" THEN Raise(other_value.err)
        ELSE IF tol_mode = "relative"
             THEN relatively_compare(one_value.f, other_value.f, tolerance)
             ELSE absolutely_compare(one_value.f, other_value.f, tolerance)

----------------------------------------------------------------------------
(* StringComparator *)

\* str.lower() on the strings of the model
Lower(s) == CASE s = "A" -> "a" [] s = "B" -> "b" [] OTHER -> s

\* Python == between two cell values
PyEq(o, p) ==
    CASE o.t = "num" /\ p.t = "num" -> o.n = p.n
      [] o.t = "str" /\ p.t = "str" -> o.s = p.s
      [] o.t = "none" /\ p.t = "none" -> TRUE
      [] OTHER -> FALSE

\* StringComparator(one, other, ignore_case).compare(); comparing with a
\* Series yields a Series, reported in field ser
StringCompare(o, p, ic) ==
    IF ic THEN
        IF o.t # "str" \/ p.t # "str"
        THEN [err |-> "AttributeError", val |-> FALSE, ser |-> FALSE]
        ELSE [err |-> "", val |-> Lower(o.s) = Lower(p.s), ser |-> FALSE]
    ELSE IF o.t = "series" \/ p.t = "series"
         THEN [err |-> "", val |-> FALSE, ser |-> TRUE]
         ELSE [err |-> "", val |-> PyEq(o, p), ser |-> FALSE]

----------------------------------------------------------------------------
(* DataFrames: a sequence of column names and a sequence of rows, each row *)
(* a function from column name to cell value                               *)

Frame(columns, rows) == [columns |-> columns, rows |-> rows]

Range(seq) == {seq[i] : i \in 1..Len(seq)}

PyList(cols) == [given |-> TRUE, cols |-> cols]
PyNone == [given |-> FALSE, cols |-> <<>>]

\* truthiness of an optional list: None and [] are falsy
Truthy(l) == l.given /\ Len(l.cols) > 0

Restrict(row, cols) == [c \in cols |-> row[c]]

\* DataFrame.set_index(keys)[cols]: the index label of a row is the tuple of
\* its key cells; no uniqueness is verified
SetIndex(frame, keys, cols) ==
    [j \in 1..Len(frame.rows) |->
        [idx |-> [i \in 1..Len(keys) |-> frame.rows[j][keys[i]]],
         row |-> Restrict(frame.rows[j], Range(cols))]]

Index(indexed) == [j \in 1..Len(indexed) |-> indexed[j].idx]

\* Index.isin
IsIn(label, indexed) == \E j \in 1..Len(indexed) : indexed[j].idx = label

Count(label, indexed) ==
    Cardinality({j \in 1..Len(indexed) : indexed[j].idx = label})

\* DataFrame.at[idx, col]: the scalar of the row labelled idx, or a Series
\* when the label is not unique
At(indexed, label, col) ==
    IF Count(label, indexed) > 1 THEN SeriesVal
    ELSE LET j == CHOOSE j \in 1..Len(indexed) : indexed[j].idx = label
         IN  indexed[j].row[col]

\* DataFrame.loc[labels]: for each label in turn, the rows carrying it
RECURSIVE Loc(_, _)
Loc(indexed, labels) ==
    IF labels = <<>> THEN <<>>
    ELSE SelectSeq(indexed, LAMBDA r : r.idx = Head(labels))
         \o Loc(indexed, Tail(labels))

\* Series.astype("float64") succeeds
AsTypeFloat64(indexed, col) ==
    \A j \in 1..Len(indexed) :
        LET v == indexed[j].row[col]
        IN  v.t \in {"num", "nan", "none"} \/ (v.t = "str" /\ v.s \in FloatLiterals)

----------------------------------------------------------------------------
(* DataFrameComparator.__init__ and the methods it calls *)

NoError == [type |-> "", at |-> ""]
NoComparison == [index |-> <<>>, cells |-> <<>>]

Abort(type, at) ==
    /\ pc' = "error"
    /\ error' = [type |-> type, at |-> at]

\* lines 108-113: the fields are stored and the subset defaulted
__init__ ==
    /\ pc = "call"
    /\ subset' = IF Truthy(subset_arg) THEN subset_arg ELSE PyList(one.columns)
    /\ pc' = "_check_subset"
    /\ UNCHANGED <<one, other, on, subset_arg, number_mode, number_tolerance,
                   ignore_case, _one, _other, comparators, _comparison, _mask,
                   error, nc>>

join_columns == Range(one.columns) \cap Range(other.columns)
except_on_columns == join_columns \ Range(on)

\* the assertion of _check_subset
OnAssertion(ons, subset_set) ==
    /\ Len(on) > 0
    /\ ~(ons \subseteq subset_set)
    /\ ons \subseteq join_columns

\* the order a set of column names is listed in
RECURSIVE SetToSeq(_)
SetToSeq(S) ==
    IF S = {} THEN <<>>
    ELSE LET c == CHOOSE c \in S : TRUE IN <<c>> \o SetToSeq(S \ {c})

\* the key columns not taken out of the admissible subset columns
InvalidSubset_keeps_keys(subset_set) == ~(subset_set \subseteq join_columns)

\* line 151
InvalidSubset(subset_set) == ~(subset_set \subseteq except_on_columns)

_check_subset ==
    /\ pc = "_check_subset"
    /\ LET ons == Range(on)
           subset_set == Range(subset.cols)
       IN  IF ~OnAssertion(ons, subset_set)
           THEN Abort("AssertionError", "_check_subset") /\ UNCHANGED subset
           ELSE IF except_on_columns = {}
           THEN Abort("KeyError", "_check_subset") /\ UNCHANGED subset
           ELSE IF ~subset.given
           THEN /\ subset' = PyList(SetToSeq(except_on_columns))
                /\ pc' = "_prepare_data"
                /\ UNCHANGED error
           ELSE IF InvalidSubset(subset_set)
           THEN Abort("KeyError", "_check_subset") /\ UNCHANGED subset
           ELSE /\ pc' = "_prepare_data"
                /\ UNCHANGED <<subset, error>>
    /\ UNCHANGED <<one, other, on, subset_arg, number_mode, number_tolerance,
                   ignore_case, _one, _other, comparators, _comparison, _mask,
                   nc>>

_prepare_data ==
    /\ pc = "_prepare_data"
    /\ _one' = SetIndex(one, on, subset.cols)
    /\ _other' = SetIndex(other, on, subset.cols)
    /\ pc' = "_prepare_comparators"
    /\ UNCHANGED <<one, other, on, subset_arg, subset, number_mode,
                   number_tolerance, ignore_case, comparators, _comparison,
                   _mask, error, nc>>

\* a classification that consults both frames
ComparatorFor_both_frames(col) ==
    IF AsTypeFloat64(_one, col) /\ AsTypeFloat64(_other, col)
    THEN "NumberComparator" ELSE "StringComparator"

\* the comparator class chosen for a column, from the old frame alone
ComparatorFor(col) ==
    IF AsTypeFloat64(_one, col) THEN "NumberComparator" ELSE "StringComparator"

_prepare_comparators ==
    /\ pc = "_prepare_comparators"
    /\ comparators' = [i \in 1..Len(subset.cols) |-> ComparatorFor(subset.cols[i])]
    /\ pc' = "_compare"
    /\ UNCHANGED <<one, other, on, subset_arg, subset, number_mode,
                   number_tolerance, ignore_case, _one, _other, _comparison,
                   _mask, error, nc>>

\* what storing a Series-valued verdict into one cell of the comparison frame
\* may do: fail, or leave a truthy or a falsy cell
SeriesOutcomes == {"ValueError", "True", "False"}

\* lines 184-190 for the i-th subset column and the j-th common label
CellCompare(labels, i, j, outcome) ==
    LET col == subset.cols[i]
        one_val == At(_one, labels[j], col)
        other_val == IF IsIn(labels[j], _other)
                     THEN At(_other, labels[j], col) ELSE None
    IN  IF comparators[i] = "NumberComparator"
        THEN NumberCompare(one_val, other_val, number_mode, number_tolerance)
        ELSE LET r == StringCompare(one_val, other_val, ignore_case)
             IN  IF ~r.ser THEN [err |-> r.err, val |-> r.val]
                 ELSE IF outcome = "ValueError" THEN Raise("ValueError")
                 ELSE Ok(outcome = "True")

\* line 179-180: the labels of the old frame that the new frame has too
CommonLabels == SelectSeq(Index(_one), LAMBDA l : IsIn(l, _other))

\* the cells in the order the two loops visit them: column by column
CellOrder(n, m) == {<<i, j>> : i \in 1..n, j \in 1..m}
Before(c, d) == c[1] < d[1] \/ (c[1] = d[1] /\ c[2] < d[2])

\* any() in place of all()
MaskAny(cells, n) == [j \in 1..Len(cells) |-> \E i \in 1..n : cells[j][i]]

\* line 191: all() over the cells of each row, one boolean per common
\* label (none when the frames share no label)
Mask(cells, n) == [j \in 1..Len(cells) |-> \A i \in 1..n : cells[j][i]]

_compare ==
    /\ pc = "_compare"
    /\ \E outcome \in SeriesOutcomes :
        LET labels == CommonLabels
            n == Len(subset.cols)
            m == Len(labels)
            res == [c \in CellOrder(n, m) |-> CellCompare(labels, c[1], c[2], outcome)]
            failed == {c \in CellOrder(n, m) : res[c].err # ""}
        IN  IF failed # {}
            THEN LET first == CHOOSE c \in failed :
                                  \A d \in failed : d = c \/ Before(c, d)
                 IN  /\ Abort(res[first].err, "_compare")
                     /\ UNCHANGED <<_comparison, _mask>>
            ELSE LET cells == [j \in 1..m |-> [i \in 1..n |-> res[<<i, j>>].val]]
                 IN  /\ _comparison' = [index |-> labels, cells |-> cells]
                     /\ _mask' = Mask(cells, n)
                     /\ pc' = "done"
                     /\ UNCHANGED error
    /\ UNCHANGED <<one, other, on, subset_arg, subset, number_mode,
                   number_tolerance, ignore_case, _one, _other, comparators, nc>>

----------------------------------------------------------------------------
(* The properties of a constructed DataFrameComparator *)

\* the old frame tested against its own index
rows_deleted_own_index == SelectSeq(_one, LAMBDA r : ~IsIn(r.idx, _one))

rows_deleted == SelectSeq(_one, LAMBDA r : ~IsIn(r.idx, _other))

rows_inserted == SelectSeq(_other, LAMBDA r : ~IsIn(r.idx, _one))

\* _comparison.loc[_mask].index and _comparison.loc[~_mask].index
RECURSIVE MaskedIndex(_, _, _)
MaskedIndex(index, mask, want) ==
    IF index = <<>> THEN <<>>
    ELSE (IF Head(mask) = want THEN <<Head(index)>> ELSE <<>>)
         \o MaskedIndex(Tail(index), Tail(mask), want)

rows_in_common == Loc(_one, MaskedIndex(_comparison.index, _mask, TRUE))

rows_before_update == Loc(_one, MaskedIndex(_comparison.index, _mask, FALSE))

rows_after_update == Loc(_other, MaskedIndex(_comparison.index, _mask, FALSE))

----------------------------------------------------------------------------
(* The calls explored: DataFrameComparator(one, other, on, subset, ...)     *)

Keys == 1..MaxKey

DefaultTolerance == Fin(1, 1000)

MkRow(k, g, rv) ==
    [c \in {"id", "grp", "x", "s", "extra"} |->
        CASE c = "id" -> Num(k)
          [] c = "grp" -> Num(g)
          [] c = "x" -> rv.x
          [] c = "s" -> rv.s
          [] OTHER -> Num(1)]

\* the rows of a table that holds, for each key k, the f[k]-th row value of rv
\* (none when f[k] = 0), in ascending key order
RECURSIVE BuildRows(_, _, _, _)
BuildRows(f, rv, cols, k) ==
    IF k > MaxKey THEN <<>>
    ELSE (IF f[k] = 0 THEN <<>> ELSE <<Restrict(MkRow(k, 1, rv[f[k]]), cols)>>)
         \o BuildRows(f, rv, cols, k + 1)

DataColumns == <<"id", "x", "s">>

\* every table over DataColumns with at most one row per key
UniqueTables(rv) ==
    {Frame(DataColumns, BuildRows(f, rv, Range(DataColumns), 1)) :
        f \in [Keys -> 0..Len(rv)]}

\* a table of UniqueTables, possibly followed by a second row for one of its keys
DupTables(rv) ==
    UniqueTables(rv) \cup
    {Frame(DataColumns, u.rows \o <<Restrict(MkRow(k, 1, rv[d]), Range(DataColumns))>>) :
        <<u, k, d>> \in {w \in UniqueTables(rv) \X Keys \X (1..Len(rv)) :
                           \E j \in 1..Len(w[1].rows) : w[1].rows[j]["id"] = Num(w[2])}}

PlainRows == << [x |-> Num(0), s |-> Str("a")],
                [x |-> Num(1), s |-> Str("a")],
                [x |-> Num(0), s |-> Str("A")] >>

NullRows == << [x |-> Num(0), s |-> Str("a")],
               [x |-> NaN, s |-> Str("a")],
               [x |-> Num(0), s |-> None] >>

DriftRows == << [x |-> Num(1), s |-> Str("a")],
                [x |-> Str("1"), s |-> Str("a")],
                [x |-> Str("a"), s |-> Str("a")] >>

DupRows == << [x |-> Num(0), s |-> Str("a")],
              [x |-> Num(1), s |-> Str("A")] >>

Called ==
    /\ pc = "call"
    /\ subset = PyNone
    /\ _one = <<>>
    /\ _other = <<>>
    /\ comparators = <<>>
    /\ _comparison = NoComparison
    /\ _mask = <<>>
    /\ error = NoError
    /\ nc = [one |-> None, other |-> None, tol_mode |-> "absolute",
             tolerance |-> DefaultTolerance, result |-> Raise("unset")]

\* tables without missing values, under every numeric and string policy
InitPlain ==
    /\ one \in UniqueTables(PlainRows)
    /\ other \in UniqueTables(PlainRows)
    /\ on = <<"id">>
    /\ subset_arg = PyList(<<"x", "s">>)
    /\ number_mode \in TOLERANCE_MODES
    /\ number_tolerance \in {Fin(0, 1), DefaultTolerance, Fin(2, 1)}
    /\ ignore_case \in BOOLEAN

\* tables with missing cells
InitNull ==
    /\ one \in UniqueTables(NullRows)
    /\ other \in UniqueTables(NullRows)
    /\ on = <<"id">>
    /\ subset_arg = PyList(<<"x", "s">>)
    /\ number_mode \in TOLERANCE_MODES
    /\ number_tolerance = DefaultTolerance
    /\ ignore_case \in BOOLEAN

\* tables whose column x mixes numbers, numeric strings and other strings
InitDrift ==
    /\ one \in UniqueTables(DriftRows)
    /\ other \in UniqueTables(DriftRows)
    /\ on = <<"id">>
    /\ subset_arg \in {PyList(<<"x", "s">>), PyList(<<"s", "x">>)}
    /\ number_mode = "absolute"
    /\ number_tolerance = DefaultTolerance
    /\ ignore_case \in BOOLEAN

\* tables in which a key may occur twice
InitDup ==
    /\ one \in DupTables(DupRows)
    /\ other \in DupTables(DupRows)
    /\ on = <<"id">>
    /\ subset_arg \in {PyList(<<"x">>), PyList(<<"s">>)}
    /\ number_mode = "absolute"
    /\ number_tolerance = DefaultTolerance
    /\ ignore_case \in BOOLEAN

FullColumns == <<"id", "grp", "x", "s">>

SampleOld(cols) ==
    Frame(cols, << Restrict(MkRow(1, 1, PlainRows[1]), Range(cols)),
                   Restrict(MkRow(2, 1, PlainRows[2]), Range(cols)) >>)

SampleNew(cols) ==
    Frame(cols, << Restrict(MkRow(2, 1, PlainRows[2]), Range(cols)),
                   Restrict(MkRow(1, 2, PlainRows[3]), Range(cols)) >>)

\* one pair of tables under every shape of key columns, subset and schemas
InitConfig ==
    /\ one \in {SampleOld(FullColumns), SampleOld(FullColumns \o <<"extra">>)}
    /\ other \in {SampleNew(FullColumns), SampleNew(<<"id", "grp", "x">>),
                  SampleNew(<<"id", "grp">>), SampleNew(FullColumns \o <<"extra">>)}
    /\ on \in {<<>>, <<"id">>, <<"id", "grp">>, <<"s">>, <<"extra">>}
    /\ subset_arg \in {PyNone, PyList(<<>>), PyList(<<"x">>), PyList(<<"x", "s">>),
                       PyList(<<"s">>), PyList(<<"id">>), PyList(<<"id", "x">>),
                       PyList(<<"id", "grp">>), PyList(<<"id", "grp", "x">>),
                       PyList(<<"extra">>)}
    /\ number_mode = "absolute"
    /\ number_tolerance = DefaultTolerance
    /\ ignore_case \in BOOLEAN

Init == Called /\ (InitPlain \/ InitNull \/ InitDrift \/ InitDup \/ InitConfig)

Next == __init__ \/ _check_subset \/ _prepare_data \/ _prepare_comparators \/ _compare

Spec == Init /\ [][Next]_vars

----------------------------------------------------------------------------
(* A free-standing NumberComparator(one, other, tol_mode, tolerance)       *)

Tolerances == {Fin(0, 1), DefaultTolerance, Fin(1, 2), Fin(1, 1), Fin(2, 1)}

InitNumber ==
    /\ pc = "NumberComparator"
    /\ nc \in [one : {Num(a) : a \in -MaxNum..MaxNum},
               other : {Num(b) : b \in -MaxNum..MaxNum},
               tol_mode : TOLERANCE_MODES,
               tolerance : Tolerances,
               result : {Raise("unset")}]
    /\ one = Frame(<<>>, <<>>)
    /\ other = Frame(<<>>, <<>>)
    /\ on = <<>>
    /\ subset_arg = PyNone
    /\ subset = PyNone
    /\ number_mode = "absolute"
    /\ number_tolerance = DefaultTolerance
    /\ ignore_case = FALSE
    /\ _one = <<>>
    /\ _other = <<>>
    /\ comparators = <<>>
    /\ _comparison = NoComparison
    /\ _mask = <<>>
    /\ error = NoError

\* NumberComparator.compare
compare ==
    /\ pc = "NumberComparator"
    /\ nc' = [nc EXCEPT !.result = NumberCompare(nc.one, nc.other, nc.tol_mode, nc.tolerance)]
    /\ pc' = "compared"
    /\ UNCHANGED <<one, other, on, subset_arg, subset, number_mode,
                   number_tolerance, ignore_case, _one, _other, comparators,
                   _comparison, _mask, error>>

NextNumber == compare

SpecNumber == InitNumber /\ [][NextNumber]_vars

----------------------------------------------------------------------------
(* Vocabulary of the properties *)

UniqueIndex(indexed) ==
    \A j1, j2 \in 1..Len(indexed) : indexed[j1].idx = indexed[j2].idx => j1 = j2

UniqueKeys == UniqueIndex(_one) /\ UniqueIndex(_other)

\* how many rows of a partition carry the label
Occurs(label, rows) == Cardinality({j \in 1..Len(rows) : rows[j].idx = label})

AllLabels == Range(Index(_one)) \cup Range(Index(_other))

Finished == pc \in {"done", "error"}

\* the key tuple of a row of an input frame
KeyOf(row) == [i \in 1..Len(on) |-> row[on[i]]]

\* the subset columns of the row of an input frame stored under a key
SourceRows(frame, label) ==
    {Restrict(frame.rows[j], Range(subset.cols)) :
        j \in {j \in 1..Len(frame.rows) : KeyOf(frame.rows[j]) = label}}

IsNull(v) == v.t \in {"nan", "none"}

\* the key columns are usable and leave a common column to compare
ValidKeys ==
    /\ Len(on) > 0
    /\ Range(on) \subseteq join_columns
    /\ join_columns \ Range(on) # {}

----------------------------------------------------------------------------
(* C1: when a report exists for tables with unique keys, a key only in the *)
(* old table occurs once in rows_deleted and in no other partition, a key  *)
(* only in the new table occurs once in rows_inserted and in no other      *)
(* partition, and a key in both occurs in neither of those two and either  *)
(* once in rows_in_common or in the updated partitions, never both and     *)
(* never neither.                                                          *)
C1_Partition ==
    (pc = "done" /\ UniqueKeys) =>
        \A l \in AllLabels :
            LET d == Occurs(l, rows_deleted)
                i == Occurs(l, rows_inserted)
                c == Occurs(l, rows_in_common)
                b == Occurs(l, rows_before_update)
                a == Occurs(l, rows_after_update)
            IN  CASE IsIn(l, _one) /\ ~IsIn(l, _other) ->
                        d = 1 /\ i = 0 /\ c = 0 /\ b = 0 /\ a = 0
                  [] ~IsIn(l, _one) /\ IsIn(l, _other) ->
                        i = 1 /\ d = 0 /\ c = 0 /\ b = 0 /\ a = 0
                  [] OTHER ->
                        /\ d = 0 /\ i = 0
                        /\ (c = 1 /\ b = 0 /\ a = 0) \/ (c = 0 /\ b = 1 /\ a = 1)

C1_Witness ==
    /\ pc = "done" /\ UniqueKeys
    /\ Len(rows_deleted) > 0
    /\ Len(rows_inserted) > 0
    /\ Len(rows_in_common) > 0

(* C2: comparing a table with unique keys against itself under a valid     *)
(* configuration ends with a report whose rows_deleted, rows_inserted,     *)
(* rows_before_update and rows_after_update are empty and whose            *)
(* rows_in_common is the whole table.                                      *)
C2_Idempotence ==
    (/\ Finished
     /\ one = other
     /\ error.at # "_check_subset"
     /\ UniqueKeys) =>
        /\ pc = "done"
        /\ rows_deleted = <<>>
        /\ rows_inserted = <<>>
        /\ rows_before_update = <<>>
        /\ rows_after_update = <<>>
        /\ rows_in_common = _one

(* C3: a table holding two rows with the same key tuple never yields a     *)
(* report: construction has failed before any cell was compared.           *)
C3_DuplicateKeyRejected ==
    (Finished /\ ~UniqueKeys) =>
        /\ pc = "error"
        /\ error.at = "_prepare_data"

(* C4: when a subset column given by the caller is also a key column,      *)
(* construction never gets past _check_subset: it raises there, no frame   *)
(* is indexed, no comparator chosen and no cell compared.                  *)
Overlap == subset_arg.given /\ Range(subset_arg.cols) \cap Range(on) # {}

C4_OverlapRejected ==
    Overlap =>
        /\ pc \in {"call", "_check_subset", "error"}
        /\ pc = "error" => /\ error.at = "_check_subset"
                           /\ error.type \in {"AssertionError", "KeyError"}
        /\ _one = <<>> /\ _other = <<>>
        /\ comparators = <<>>
        /\ _comparison = NoComparison

C4_Witness ==
    /\ Overlap
    /\ ~(Range(on) \subseteq Range(subset_arg.cols))
    /\ Range(on) \subseteq join_columns
    /\ pc = "error"

(* C5: with the subset left unspecified and usable key columns, the subset *)
(* becomes all columns of the old table and _check_subset accepts it, so   *)
(* that construction goes on to a report.                                  *)
C5_DefaultSubset ==
    (~subset_arg.given /\ ValidKeys /\ pc # "call") =>
        /\ subset = PyList(one.columns)
        /\ error.at # "_check_subset"

(* C6: the verdict of NumberComparator.compare on two numbers a and b is   *)
(* |a - b| < t in absolute mode and, in relative mode, true when           *)
(* a = b = 0 and otherwise |a - b| / max(|a|, |b|) < t; no error is        *)
(* raised.                                                                 *)
IntMax(a, b) == IF a > b THEN a ELSE b

Reference(a, b, tol_mode, t) ==
    IF tol_mode = "absolute"
    THEN Abs(a - b) * t.den < t.num
    ELSE (a = 0 /\ b = 0) \/
         (IntMax(Abs(a), Abs(b)) > 0 /\
          Abs(a - b) * t.den < t.num * IntMax(Abs(a), Abs(b)))

C6_NumberVerdict ==
    pc = "compared" =>
        /\ nc.result.err = ""
        /\ nc.result.val = Reference(nc.one.n, nc.other.n, nc.tol_mode, nc.tolerance)

\* a difference of exactly the tolerance
C6_Witness ==
    /\ pc = "compared"
    /\ nc.tol_mode = "absolute"
    /\ nc.tolerance.num > 0
    /\ Abs(nc.one.n - nc.other.n) * nc.tolerance.den = nc.tolerance.num
    /\ nc.result = Ok(FALSE)

(* C7: for a common key and a compared column, a cell missing on exactly   *)
(* one side compares as not equal without raising, whichever comparator    *)
(* the column has and whichever case policy is set.                        *)
C7_MissingIsUnequal ==
    (pc = "_compare" /\ UniqueKeys) =>
        \A i \in 1..Len(subset.cols), j \in 1..Len(CommonLabels) :
            LET o == At(_one, CommonLabels[j], subset.cols[i])
                p == At(_other, CommonLabels[j], subset.cols[i])
            IN  (IsNull(o) # IsNull(p)) =>
                    CellCompare(CommonLabels, i, j, "False") = Ok(FALSE)

(* C8: in a report for tables with unique keys, a common key is in         *)
(* rows_in_common iff every cell verdict of its row is true; otherwise it  *)
(* is in rows_before_update with the old table's values and in             *)
(* rows_after_update with the new table's values.                          *)
C8_RowVerdict ==
    (pc = "done" /\ UniqueKeys) =>
        \A j \in 1..Len(_comparison.index) :
            LET l == _comparison.index[j]
                unchanged == \A i \in 1..Len(subset.cols) : _comparison.cells[j][i]
                old == [idx |-> l, row |-> CHOOSE r \in SourceRows(one, l) : TRUE]
                new == [idx |-> l, row |-> CHOOSE r \in SourceRows(other, l) : TRUE]
            IN  /\ IsIn(l, _one) /\ IsIn(l, _other)
                /\ (Occurs(l, rows_in_common) = 1) <=> unchanged
                /\ ~unchanged =>
                      /\ old \in Range(rows_before_update)
                      /\ new \in Range(rows_after_update)
                      /\ Occurs(l, rows_before_update) = 1
                      /\ Occurs(l, rows_after_update) = 1
                /\ unchanged =>
                      /\ Occurs(l, rows_before_update) = 0
                      /\ Occurs(l, rows_after_update) = 0

\* an updated row with one equal and one unequal cell, whose values differ
\* between the tables
C8_Witness ==
    /\ pc = "done" /\ UniqueKeys
    /\ \E j \in 1..Len(_comparison.index) :
          /\ \E i \in 1..Len(subset.cols) : _comparison.cells[j][i]
          /\ \E i \in 1..Len(subset.cols) : ~_comparison.cells[j][i]
    /\ rows_before_update # rows_after_update

(* C9: a subset column whose values in the old table all convert to float  *)
(* is compared numerically; a value that float() rejects in that column    *)
(* of the new table then makes construction fail without a report.         *)
NonNumeric(v) == float(v).err # ""

DriftAnywhere ==
    \E i \in 1..Len(subset.cols) :
        /\ AsTypeFloat64(_one, subset.cols[i])
        /\ \E j \in 1..Len(_other) : NonNumeric(_other[j].row[subset.cols[i]])

C9_DriftAnywhereAborts ==
    (pc = "done") => ~DriftAnywhere

(* C9 as amended: the same, for a value that float() rejects in a row of   *)
(* the new table whose key is also in the old table.                       *)
DriftInCommon ==
    \E i \in 1..Len(subset.cols) :
        /\ AsTypeFloat64(_one, subset.cols[i])
        /\ \E j \in 1..Len(_other) :
              /\ IsIn(_other[j].idx, _one)
              /\ NonNumeric(_other[j].row[subset.cols[i]])

C9_DriftInCommonAborts ==
    /\ (pc = "done") => ~DriftInCommon
    /\ (pc \in {"_compare", "done", "error"} /\ error.at # "_check_subset") =>
          \A i \in 1..Len(subset.cols) :
              (comparators[i] = "NumberComparator") <=> AsTypeFloat64(_one, subset.cols[i])

C9_Witness ==
    /\ pc = "error"
    /\ error = [type |-> "ValueError", at |-> "_compare"]
    /\ UniqueKeys
    /\ DriftInCommon

(* C10: with an empty subset given and usable key columns, construction    *)
(* succeeds and every common key is unchanged.                             *)
C10_EmptySubset ==
    (subset_arg = PyList(<<>>) /\ ValidKeys /\ Finished) =>
        /\ pc = "done"
        /\ subset.cols = <<>>
        /\ rows_before_update = <<>>
        /\ rows_after_update = <<>>
        /\ \A l \in Range(Index(_one)) : IsIn(l, _other) => Occurs(l, rows_in_common) > 0

====
